---- MODULE Spec2Model ----
(***************************************************************************)
(* A model of src/connector.py: the BMW VIN decoder (decode_bmw_vin,       *)
(* _validate_bmw_vin, _determine_bmw_series), the recall fetcher, the      *)
(* sync driver (fetch_records), the connectivity self-test and the update  *)
(* generator.                                                              *)
(*                                                                         *)
(* Python strings are sequences of one-character strings, so that          *)
(* substring tests, slicing, indexing and int() parsing are computed as    *)
(* the code computes them.  A JSON value that may be null is a record      *)
(* [isnull, s].  A call's result is [kind |-> "return", ...] or            *)
(* [kind |-> "raise", error |-> ...].                                      *)
(***************************************************************************)
EXTENDS Integers, Sequences, FiniteSets, TLC

VARIABLES
    call,                  \* the call under way: its operation and inputs
    pc,                    \* position of the call: "call", a loop position, "done"
    ret,                   \* what the call returned or raised
    net_calls,             \* GET requests issued so far
    clock,                 \* wall-clock time, advanced by every blocking GET
    decoded_date_default,  \* BMWVehicleInfo.decoded_date's default, captured once
    idx,                   \* fetch_records: index of the next VIN of self.vins
    records,               \* fetch_records: the list built so far
    last_net,              \* fetch_records: the API's answer in the last iteration
    last_len,              \* fetch_records: len(records) before the last iteration
    tbl,                   \* update: index of the table being synced
    yidx,                  \* update: index of the next record to yield
    collected,             \* update: every (table, record) fetch_records handed back
    ops                    \* update: the operations yielded so far

vars == <<call, pc, ret, net_calls, clock, decoded_date_default,
          idx, records, last_net, last_len, tbl, yidx, collected, ops>>

----------------------------------------------------------------------------
(* Bounds of the model                                                     *)

MaxVins == 3        \* longest configured VIN list
MaxPairs == 2       \* most {Variable, Value} pairs in a decode response
MaxRecalls == 2     \* most raw entries in a recall response
MaxNameLen == 2     \* longest model name handed to _determine_bmw_series

----------------------------------------------------------------------------
(* Strings                                                                 *)

SeqsUpTo(S, n) == UNION {[1..k -> S] : k \in 0..n}

Unknown == <<"U","n","k","n","o","w","n">>

\* Python's `p in s` on strings
Contains(s, p) ==
    \E i \in 0..(Len(s) - Len(p)) : SubSeq(s, i + 1, i + Len(p)) = p

\* Python's s[:n]
Prefix(s, n) == SubSeq(s, 1, IF Len(s) < n THEN Len(s) ELSE n)

Str(s) == [isnull |-> FALSE, s |-> s]
Null == [isnull |-> TRUE, s |-> <<>>]

\* Python truthiness of a JSON string-or-null
Truthy(v) == ~v.isnull /\ v.s # <<>>

Digits == {"0","1","2","3","4","5","6","7","8","9"}

DigitVal(c) ==
    CASE c = "0" -> 0 [] c = "1" -> 1 [] c = "2" -> 2 [] c = "3" -> 3
      [] c = "4" -> 4 [] c = "5" -> 5 [] c = "6" -> 6 [] c = "7" -> 7
      [] c = "8" -> 8 [] c = "9" -> 9

RECURSIVE LStrip(_)
LStrip(s) == IF s # <<>> /\ Head(s) = " " THEN LStrip(Tail(s)) ELSE s

RECURSIVE RStrip(_)
RStrip(s) ==
    IF s # <<>> /\ s[Len(s)] = " " THEN RStrip(SubSeq(s, 1, Len(s) - 1)) ELSE s

\* the digits of a literal body; "_" may stand between two digits only
IsDigitBody(s) ==
    /\ s # <<>>
    /\ \A i \in 1..Len(s) : s[i] \in Digits \cup {"_"}
    /\ s[1] # "_" /\ s[Len(s)] # "_"
    /\ \A i \in 1..(Len(s) - 1) : ~(s[i] = "_" /\ s[i + 1] = "_")

RECURSIVE DigitsValue(_, _)
DigitsValue(s, acc) ==
    IF s = <<>> THEN acc
    ELSE IF Head(s) = "_" THEN DigitsValue(Tail(s), acc)
    ELSE DigitsValue(Tail(s), 10 * acc + DigitVal(Head(s)))

\* int(str): surrounding blanks, an optional sign, decimal digits; anything
\* else raises ValueError
int_silent(s) ==
    LET t == RStrip(LStrip(s))
        signed == t # <<>> /\ Head(t) \in {"+", "-"}
        body == IF signed THEN Tail(t) ELSE t
    IN IF IsDigitBody(body)
       THEN [ok |-> TRUE,
             val |-> IF signed /\ Head(t) = "-" THEN 0 - DigitsValue(body, 0)
                     ELSE DigitsValue(body, 0)]
       ELSE [ok |-> TRUE, val |-> 0]

int(s) ==
    LET t == RStrip(LStrip(s))
        signed == t # <<>> /\ Head(t) \in {"+", "-"}
        body == IF signed THEN Tail(t) ELSE t
    IN IF IsDigitBody(body)
       THEN [ok |-> TRUE,
             val |-> IF signed /\ Head(t) = "-" THEN 0 - DigitsValue(body, 0)
                     ELSE DigitsValue(body, 0)]
       ELSE [ok |-> FALSE, val |-> 0]

----------------------------------------------------------------------------
(* BMWSeriesEnum, in declaration order                                     *)

BMWSeriesEnum_XFirst ==
    << [name |-> "SERIES_X", value |-> <<"X">>],
       [name |-> "SERIES_1", value |-> <<"1">>],
       [name |-> "SERIES_2", value |-> <<"2">>],
       [name |-> "SERIES_3", value |-> <<"3">>],
       [name |-> "SERIES_4", value |-> <<"4">>],
       [name |-> "SERIES_5", value |-> <<"5">>],
       [name |-> "SERIES_6", value |-> <<"6">>],
       [name |-> "SERIES_7", value |-> <<"7">>],
       [name |-> "SERIES_8", value |-> <<"8">>],
       [name |-> "SERIES_M", value |-> <<"M">>],
       [name |-> "SERIES_I", value |-> <<"i">>],
       [name |-> "UNKNOWN",  value |-> Unknown] >>

BMWSeriesEnum ==
    << [name |-> "SERIES_1", value |-> <<"1">>],
       [name |-> "SERIES_2", value |-> <<"2">>],
       [name |-> "SERIES_3", value |-> <<"3">>],
       [name |-> "SERIES_4", value |-> <<"4">>],
       [name |-> "SERIES_5", value |-> <<"5">>],
       [name |-> "SERIES_6", value |-> <<"6">>],
       [name |-> "SERIES_7", value |-> <<"7">>],
       [name |-> "SERIES_8", value |-> <<"8">>],
       [name |-> "SERIES_X", value |-> <<"X">>],
       [name |-> "SERIES_M", value |-> <<"M">>],
       [name |-> "SERIES_I", value |-> <<"i">>],
       [name |-> "UNKNOWN",  value |-> Unknown] >>

\* series.value of a member name
SeriesValue(name) ==
    (CHOOSE m \in {BMWSeriesEnum[i] : i \in 1..Len(BMWSeriesEnum)} :
        m.name = name).value

\* for series in BMWSeriesEnum: if series.value in model_name: return series
RECURSIVE FirstMatch(_, _)
FirstMatch(members, model_name) ==
    IF members = <<>> THEN "UNKNOWN"
    ELSE IF Contains(model_name, Head(members).value) THEN Head(members).name
    ELSE FirstMatch(Tail(members), model_name)

determine_bmw_series(model_name) == FirstMatch(BMWSeriesEnum, model_name)

----------------------------------------------------------------------------
(* VINs and _validate_bmw_vin                                              *)

SampleVin == <<"W","B","A","3","A","5","C","5","1","C","F","2","5","6","6","5","1">>
ConfigVin1 == <<"5","U","X","C","W","2","C","0","9","L","9","C","1","5","8","8","2">>
ConfigVin2 == <<"W","B","A","H","F","3","C","0","3","N","W","X","4","2","3","4","4">>
ShortVin == <<"W","B","A","3">>

bmw_prefixes == { <<"W","B","A">>, <<"W","B","S">>, <<"W","B","Y">>, <<"4","U","S">> }

validate_bmw_vin_no_prefix(vin) ==
    IF Len(vin) # 17
    THEN [kind |-> "raise", error |-> "ValueError: VIN must be 17 characters long"]
    ELSE [kind |-> "return", value |-> TRUE]

validate_bmw_vin(vin) ==
    IF Len(vin) # 17
    THEN [kind |-> "raise", error |-> "ValueError: VIN must be 17 characters long"]
    ELSE IF Prefix(vin, 3) \notin bmw_prefixes
    THEN [kind |-> "raise", error |-> "ValueError: Not a valid BMW VIN prefix"]
    ELSE [kind |-> "return", value |-> TRUE]

\* self._plant_codes.get(c, 'Unknown')
plant_codes(c) ==
    CASE c = "A" -> "Greer, SC, USA"
      [] c = "B" -> "Dingolfing, Germany"
      [] c = "C" -> "Munich, Germany"
      [] c = "L" -> "Leipzig, Germany"
      [] c = "N" -> "Regensburg, Germany"
      [] c = "P" -> "Munich, Germany"
      [] c = "R" -> "Spartanburg, SC, USA"
      [] c = "U" -> "Rosslyn, South Africa"
      [] c = "W" -> "Born, Netherlands"
      [] OTHER -> "Unknown"

----------------------------------------------------------------------------
(* BMWVehicleInfo and decode_bmw_vin                                       *)

\* decoded_date: str = datetime.now().isoformat() is evaluated when the class
\* body runs; an instance built with no decoded_date argument gets that value
BMWVehicleInfo_decoded_date_per_instance == clock + 1

BMWVehicleInfo_decoded_date == decoded_date_default

\* {item['Variable']: item['Value'] for item in data['Results']
\*     if item['Value'] and item['Value'] != '0'}, kept as the list of the
\* surviving items: a later item of the same Variable overwrites an earlier one
results_dict_keep_all(Results) == Results

results_dict(Results) ==
    SelectSeq(Results, LAMBDA item : Truthy(item.Value) /\ item.Value.s # <<"0">>)

HasKey(d, key) == \E i \in 1..Len(d) : d[i].Variable = key

\* d[key], for a key of d
Item(d, key) ==
    d[CHOOSE i \in 1..Len(d) :
        /\ d[i].Variable = key
        /\ \A j \in (i + 1)..Len(d) : d[j].Variable # key].Value

\* results.get(key, default) for the string-valued fields
get(d, key, default) == IF HasKey(d, key) THEN Item(d, key).s ELSE default

\* results.get('DateProduced', None)
get_or_none(d, key) == IF HasKey(d, key) THEN Item(d, key) ELSE Null

\* int(results.get('ModelYear', 0))
model_year_of(d) ==
    IF HasKey(d, "ModelYear") THEN int(Item(d, "ModelYear").s)
    ELSE [ok |-> TRUE, val |-> 0]

\* the outcome of the GET and of reading the body, then the mapping; every
\* except clause logs and re-raises
decode_bmw_vin(vin, net) ==
    IF net.status # "ok"
    THEN [kind |-> "raise", error |-> net.status, gets |-> 1]
    ELSE
      LET results == results_dict(net.Results)
          model_name == get(results, "Model", Unknown)
          series == determine_bmw_series(model_name)
          year == model_year_of(results)
      IN IF ~year.ok
         THEN [kind |-> "raise", error |-> "ValueError", gets |-> 1]
         ELSE IF Len(vin) < 12
         THEN [kind |-> "raise", error |-> "IndexError", gets |-> 1]
         ELSE [kind |-> "return", gets |-> 1,
               value |->
                 [vin |-> vin,
                  series |-> series,
                  model_year |-> year.val,
                  model_name |-> model_name,
                  body_type |-> get(results, "BodyClass", Unknown),
                  engine_type |-> get(results, "EngineConfiguration", Unknown),
                  transmission |-> get(results, "TransmissionStyle", Unknown),
                  drive_type |-> get(results, "DriveType", Unknown),
                  manufacturing_plant |-> plant_codes(vin[12]),
                  production_date |-> get_or_none(results, "DateProduced"),
                  decoded_date |-> BMWVehicleInfo_decoded_date]]

to_record(info) == [info EXCEPT !.series = SeriesValue(info.series)]

----------------------------------------------------------------------------
(* get_bmw_recalls and fetch_records                                       *)

\* data.get('Results', []); any failure is logged and re-raised
get_bmw_recalls(vin, net) ==
    IF net.status # "ok"
    THEN [kind |-> "raise", error |-> net.status, gets |-> 1]
    ELSE [kind |-> "return", gets |-> 1,
          value |-> IF net.has_results THEN net.Results ELSE <<>>]

\* recall.get(key, default) on a dict entry
recall_get(recall, key, default) ==
    IF recall.fields[key].present THEN recall.fields[key].s ELSE default

recall_record(vin, recall) ==
    [vin |-> vin,
     campaign_number |-> recall_get(recall, "CampaignNumber", "Unknown"),
     component |-> recall_get(recall, "Component", "Unknown"),
     summary |-> recall_get(recall, "Summary", ""),
     consequence |-> recall_get(recall, "Consequence", ""),
     remedy |-> recall_get(recall, "Remedy", ""),
     recall_date |-> recall_get(recall, "ReportReceivedDate", "")]

\* for recall in recalls: records.append({...}); recall.get on an entry that
\* is no dict raises inside the try, after the earlier appends
RECURSIVE append_recalls(_, _, _)
append_recalls(recs, vin, recalls) ==
    IF recalls = <<>> THEN recs
    ELSE IF ~Head(recalls).isdict THEN recs
    ELSE append_recalls(Append(recs, recall_record(vin, Head(recalls))),
                        vin, Tail(recalls))

\* one iteration of the "bmw_vehicles" loop
fetch_vehicle_step(recs, vin, net) ==
    LET r == decode_bmw_vin(vin, net)
    IN IF r.kind = "return" THEN Append(recs, to_record(r.value)) ELSE recs

\* one iteration of the "bmw_recalls" loop
fetch_recall_step(recs, vin, net) ==
    LET r == get_bmw_recalls(vin, net)
    IN IF r.kind = "return" THEN append_recalls(recs, vin, r.value) ELSE recs

fetch_step(table, recs, vin, net) ==
    IF table = "bmw_vehicles" THEN fetch_vehicle_step(recs, vin, net)
    ELSE IF table = "bmw_recalls" THEN fetch_recall_step(recs, vin, net)
    ELSE recs

\* BMWVinDecoderSchema.get_tables
get_tables == <<"bmw_vehicles">>

----------------------------------------------------------------------------
(* test_connection                                                         *)

\* config.get('vins', ["WBA3A5C51CF256651"])
config_vins(config) == IF config.has_vins THEN config.vins ELSE <<SampleVin>>

test_connection_true_on_error(config, net) ==
    LET vins == config_vins(config)
    IN IF vins = <<>> THEN [kind |-> "return", value |-> TRUE, gets |-> 0]
       ELSE [kind |-> "return", value |-> TRUE, gets |-> 1]

\* [0] on an empty list raises IndexError inside the try; any exception of
\* the decode is caught there as well
test_connection(config, net) ==
    LET vins == config_vins(config)
    IN IF vins = <<>> THEN [kind |-> "return", value |-> FALSE, gets |-> 0]
       ELSE LET r == decode_bmw_vin(vins[1], net)
            IN [kind |-> "return", value |-> (r.kind = "return"),
                gets |-> r.gets]

\* yield op.upsert(table, record)
upsert(table, record) == [op |-> "upsert", table |-> table, data |-> record]

\* yield op.checkpoint(state)
checkpoint_get_state(state) == [op |-> "checkpoint", state |-> {}]

checkpoint(state) == [op |-> "checkpoint", state |-> state]

\* records[:2]
shown(recs) == Prefix(recs, 2)

----------------------------------------------------------------------------
(* Inputs: the calls a run may start with and the answers of the API       *)

Variables ==
    {"Model", "ModelYear", "BodyClass", "EngineConfiguration",
     "TransmissionStyle", "DriveType", "DateProduced"}

\* null, "", "0", "00", "7", "X3" and " -1_0 "
Values ==
    {Null, Str(<<>>), Str(<<"0">>), Str(<<"0","0">>), Str(<<"7">>),
     Str(<<"X","3">>), Str(<<" ","-","1","_","0"," ">>)}

Failures == {"RequestException", "JSONDecodeError", "KeyError"}

Failed(status) == [status |-> status, Results |-> <<>>]

DecodeNets ==
    {Failed(f) : f \in Failures}
    \cup {[status |-> "ok", Results |-> r] :
            r \in SeqsUpTo([Variable : Variables, Value : Values], MaxPairs)}

\* the answers the decode endpoint gives during a sync: a failed request, a
\* full answer, an answer whose ModelYear is no number
SyncDecodeNets ==
    { Failed("RequestException"),
      [status |-> "ok",
       Results |-> << [Variable |-> "Model", Value |-> Str(<<"X","3">>)],
                      [Variable |-> "ModelYear", Value |-> Str(<<"7">>)] >>],
      [status |-> "ok",
       Results |-> << [Variable |-> "ModelYear", Value |-> Str(<<"X","3">>)] >>] }

RecallKeys ==
    {"CampaignNumber", "Component", "Summary", "Consequence", "Remedy",
     "ReportReceivedDate"}

\* a raw recall entry that is a dict with some of its keys, and one that is
\* no dict
RecallEntry ==
    [isdict |-> TRUE,
     fields |-> [k \in RecallKeys |->
                    IF k \in {"CampaignNumber", "Summary"}
                    THEN [present |-> TRUE,
                          s |-> IF k = "Summary" THEN "Fuel pump may fail"
                                ELSE "21V123"]
                    ELSE [present |-> FALSE, s |-> ""]]]

NotADict == [isdict |-> FALSE]

RecallNets ==
    { [status |-> "RequestException", has_results |-> FALSE, Results |-> <<>>],
      [status |-> "ok", has_results |-> FALSE, Results |-> <<>>] }
    \cup {[status |-> "ok", has_results |-> TRUE, Results |-> r] :
            r \in SeqsUpTo({RecallEntry, NotADict}, MaxRecalls)}

SyncVins == {ConfigVin1, ConfigVin2, SampleVin}

VinLists == SeqsUpTo(SyncVins, MaxVins)

Configs ==
    {[has_vins |-> FALSE, vins |-> <<>>]}
    \cup {[has_vins |-> TRUE, vins |-> l] : l \in VinLists}

NameChars == {"1", "3", "5", "8", "X", "M", "i", "Z"}

\* the state token handed to update: a dict, by its keys
Tokens == {{}, {"cursor"}}

Calls ==
    [op : {"decode_bmw_vin"}, vin : {SampleVin, ConfigVin1, ShortVin},
     net : DecodeNets]
    \cup [op : {"_validate_bmw_vin"},
          vin : SyncVins \cup {ShortVin, <<"4","U","S">> \o SubSeq(SampleVin, 4, 17),
                               SampleVin \o <<"1">>}]
    \cup [op : {"_determine_bmw_series"},
          model_name : SeqsUpTo(NameChars, MaxNameLen) \cup {Unknown}]
    \cup [op : {"test_connection"}, config : Configs, net : SyncDecodeNets]
    \cup [op : {"fetch_records"}, table : {"bmw_vehicles", "bmw_recalls"},
          vins : VinLists]
    \cup [op : {"update"}, vins : VinLists, state : Tokens]

----------------------------------------------------------------------------
(* The state machine                                                       *)

Init ==
    /\ call \in Calls
    /\ pc = "call"
    /\ ret = [kind |-> "none"]
    /\ net_calls = 0
    /\ clock = 0
    /\ decoded_date_default = clock
    /\ idx = 1
    /\ records = <<>>
    /\ last_net = [status |-> "none"]
    /\ last_len = 0
    /\ tbl = 1
    /\ yidx = 1
    /\ collected = <<>>
    /\ ops = <<>>

loop_vars == <<idx, records, last_net, last_len>>
update_vars == <<tbl, yidx, collected, ops>>

\* a call that is one function: its result, and the GETs it issued
Returns(r) ==
    /\ ret' = r
    /\ pc' = "done"
    /\ net_calls' = net_calls + r.gets
    /\ clock' = clock + r.gets
    /\ UNCHANGED <<call, decoded_date_default, loop_vars, update_vars>>

DecodeBmwVin ==
    /\ pc = "call" /\ call.op = "decode_bmw_vin"
    /\ Returns(decode_bmw_vin(call.vin, call.net))

ValidateBmwVin ==
    /\ pc = "call" /\ call.op = "_validate_bmw_vin"
    /\ Returns([gets |-> 0] @@ validate_bmw_vin(call.vin))

DetermineBmwSeries ==
    /\ pc = "call" /\ call.op = "_determine_bmw_series"
    /\ Returns([kind |-> "return", gets |-> 0,
                value |-> determine_bmw_series(call.model_name)])

TestConnection ==
    /\ pc = "call" /\ call.op = "test_connection"
    /\ Returns(test_connection(call.config, call.net))

\* the table fetch_records is working on
Table == IF call.op = "update" THEN get_tables[tbl] ELSE call.table

NetsOf(table) == IF table = "bmw_vehicles" THEN SyncDecodeNets ELSE RecallNets

\* records = []
FetchRecordsStart ==
    /\ pc = "call" /\ call.op = "fetch_records"
    /\ pc' = "loop"
    /\ idx' = 1
    /\ records' = <<>>
    /\ UNCHANGED <<call, ret, net_calls, clock, decoded_date_default,
                   last_net, last_len, update_vars>>

\* one iteration of "for vin in self.vins", with the answer the API gives
FetchRecordsStep ==
    /\ pc = "loop" /\ idx <= Len(call.vins)
    /\ \E net \in NetsOf(Table) :
        /\ records' = fetch_step(Table, records, call.vins[idx], net)
        /\ last_net' = net
    /\ last_len' = Len(records)
    /\ idx' = idx + 1
    /\ net_calls' = net_calls + 1
    /\ clock' = clock + 1
    /\ UNCHANGED <<call, pc, ret, decoded_date_default, update_vars>>

\* return records
FetchRecordsReturn ==
    /\ pc = "loop" /\ idx > Len(call.vins) /\ call.op = "fetch_records"
    /\ ret' = [kind |-> "return", value |-> records]
    /\ pc' = "done"
    /\ UNCHANGED <<call, net_calls, clock, decoded_date_default, loop_vars,
                   update_vars>>

\* update, up to "if bmwConnector.test_connection(config)".  The source
\* ignores its configuration argument and fills config with a sample list,
\* <<ConfigVin1, ConfigVin2>>, noting that it "would normally come from
\* Fivetran"; the VIN list is an input of the run here, that list included.
UpdateStart ==
    /\ pc = "call" /\ call.op = "update"
    /\ \E net \in SyncDecodeNets :
        LET t == test_connection([has_vins |-> TRUE, vins |-> call.vins], net)
        IN /\ ret' = [kind |-> "generator", connected |-> t.value]
           /\ pc' = IF t.value THEN "tables" ELSE "done"
           /\ net_calls' = net_calls + t.gets
           /\ clock' = clock + t.gets
    /\ tbl' = 1
    /\ UNCHANGED <<call, decoded_date_default, loop_vars, yidx, collected, ops>>

\* for table in bmwConnector.schema.get_tables(): fetch_records(table, {})
UpdateNextTable ==
    /\ pc = "tables" /\ tbl <= Len(get_tables)
    /\ pc' = "loop"
    /\ idx' = 1
    /\ records' = <<>>
    /\ UNCHANGED <<call, ret, net_calls, clock, decoded_date_default,
                   last_net, last_len, update_vars>>

\* fetch_records has returned to update
UpdateFetched ==
    /\ pc = "loop" /\ idx > Len(call.vins) /\ call.op = "update"
    /\ pc' = "yield"
    /\ yidx' = 1
    /\ collected' = collected \o
                    [i \in 1..Len(records) |->
                        [table |-> Table, record |-> records[i]]]
    /\ UNCHANGED <<call, ret, net_calls, clock, decoded_date_default,
                   loop_vars, tbl, ops>>

\* for record in records[:2]: yield op.upsert(table, record)
UpdateYieldUpsert ==
    /\ pc = "yield" /\ yidx <= Len(shown(records))
    /\ ops' = Append(ops, upsert(Table, shown(records)[yidx]))
    /\ yidx' = yidx + 1
    /\ UNCHANGED <<call, pc, ret, net_calls, clock, decoded_date_default,
                   loop_vars, tbl, collected>>

UpdateTableDone ==
    /\ pc = "yield" /\ yidx > Len(shown(records))
    /\ tbl' = tbl + 1
    /\ pc' = "tables"
    /\ UNCHANGED <<call, ret, net_calls, clock, decoded_date_default,
                   loop_vars, yidx, collected, ops>>

\* yield op.checkpoint(state)
UpdateCheckpoint ==
    /\ pc = "tables" /\ tbl > Len(get_tables)
    /\ ops' = Append(ops, checkpoint(call.state))
    /\ pc' = "done"
    /\ UNCHANGED <<call, ret, net_calls, clock, decoded_date_default,
                   loop_vars, tbl, yidx, collected>>

Next ==
    \/ DecodeBmwVin
    \/ ValidateBmwVin
    \/ DetermineBmwSeries
    \/ TestConnection
    \/ FetchRecordsStart
    \/ FetchRecordsStep
    \/ FetchRecordsReturn
    \/ UpdateStart
    \/ UpdateNextTable
    \/ UpdateFetched
    \/ UpdateYieldUpsert
    \/ UpdateTableDone
    \/ UpdateCheckpoint

Spec == Init /\ [][Next]_vars

----------------------------------------------------------------------------
(* Vocabulary of the properties, stated on the API's answer itself         *)

Done(op) == call.op = op /\ pc = "done"

\* the positions of variable a in a Results list whose Value is neither
\* null, empty nor "0"
Kept(R, a) ==
    {i \in 1..Len(R) :
        /\ R[i].Variable = a
        /\ ~R[i].Value.isnull
        /\ R[i].Value.s \notin {<<>>, <<"0">>}}

Present(R, a) == Kept(R, a) # {}

\* the value the answer gives variable a: that of its last kept pair
Given(R, a) ==
    R[CHOOSE i \in Kept(R, a) : \A j \in Kept(R, a) : j <= i].Value.s

\* a decimal integer literal as int() reads it: blanks around it, an optional
\* sign, digits
IsIntLiteral(s) ==
    LET t == RStrip(LStrip(s))
    IN IsDigitBody(IF t # <<>> /\ Head(t) \in {"+", "-"} THEN Tail(t) ELSE t)

IsZeroLiteral(s) ==
    IsIntLiteral(s) /\ \A i \in 1..Len(s) : s[i] \in Digits => s[i] = "0"

\* a fetch_records iteration has just run: its VIN, and what it appended
Iterated == call.op \in {"fetch_records", "update"} /\ pc = "loop" /\ idx > 1
IterVin == call.vins[idx - 1]
Added == SubSeq(records, last_len + 1, Len(records))

StringFields ==
    << <<"Model", "model_name">>, <<"BodyClass", "body_type">>,
       <<"EngineConfiguration", "engine_type">>,
       <<"TransmissionStyle", "transmission">>, <<"DriveType", "drive_type">> >>

----------------------------------------------------------------------------
(* C1: fetch_records never raises, and each VIN contributes, in input      *)
(* order, nothing when it failed and otherwise exactly its records: one    *)
(* VehicleRecord for "bmw_vehicles"; for "bmw_recalls" one RecallRecord    *)
(* per raw entry, in the API's order.  A VIN failed when its decode/fetch  *)
(* call raised or the mapping of one of its entries raised.  Stated per    *)
(* iteration: what the iteration appended behind the records of the        *)
(* earlier VINs.                                                           *)
C1_FetchRecordsConcatenates ==
    /\ Done("fetch_records") => ret.kind = "return" /\ ret.value = records
    /\ Iterated =>
        /\ last_len <= Len(records)
        /\ IF Table = "bmw_vehicles"
           THEN LET r == decode_bmw_vin(IterVin, last_net)
                IN IF r.kind = "raise" THEN Added = <<>>
                   ELSE Len(Added) = 1 /\ Added[1].vin = IterVin
           ELSE IF \/ last_net.status # "ok"
                   \/ \E k \in 1..Len(last_net.Results) :
                        ~last_net.Results[k].isdict
           THEN Added = <<>>
           ELSE /\ Len(Added) = Len(last_net.Results)
                /\ \A k \in 1..Len(Added) :
                    Added[k] = recall_record(IterVin, last_net.Results[k])

(* C2: no partial contribution: an iteration of fetch_records appends      *)
(* either every record its VIN should produce (one for "bmw_vehicles",     *)
(* one per raw entry for "bmw_recalls") or none.                           *)
C2_AllOrNothingPerVin ==
    Iterated =>
        \/ Len(Added) = 0
        \/ Len(Added) = IF Table = "bmw_vehicles" THEN 1
                        ELSE Len(last_net.Results)

(* C3: decode_bmw_vin discards every pair whose Value is empty or "0"      *)
(* before the lookup: a mapped attribute with no other pair holds its      *)
(* default ("Unknown", 0 for model_year, null for production_date), never  *)
(* "" or "0"; an attribute with another value holds that value.            *)
C3_EmptyAndZeroFallToDefault ==
    (Done("decode_bmw_vin") /\ ret.kind = "return") =>
        LET R == call.net.Results
            v == ret.value
        IN /\ \A k \in 1..Len(StringFields) :
                LET a == StringFields[k][1]
                    f == StringFields[k][2]
                IN /\ v[f] \notin {<<>>, <<"0">>}
                   /\ v[f] = IF Present(R, a) THEN Given(R, a) ELSE Unknown
           /\ IF Present(R, "ModelYear")
              THEN IsIntLiteral(Given(R, "ModelYear"))
                   /\ v.model_year =
                        LET g == Given(R, "ModelYear")
                            n == DigitsValue(
                                   SelectSeq(g, LAMBDA c : c \in Digits), 0)
                        IN IF \E i \in 1..Len(g) : g[i] = "-" THEN 0 - n ELSE n
              ELSE v.model_year = 0
           /\ v.production_date \notin {Str(<<>>), Str(<<"0">>)}
           /\ v.production_date =
                IF Present(R, "DateProduced") THEN Str(Given(R, "DateProduced"))
                ELSE Null

C3_Witness ==
    /\ Done("decode_bmw_vin") /\ ret.kind = "return"
    /\ \E i, j \in 1..Len(call.net.Results) :
        /\ call.net.Results[i] = [Variable |-> "Model", Value |-> Str(<<"0">>)]
        /\ call.net.Results[j] = [Variable |-> "DateProduced", Value |-> Str(<<>>)]
    /\ ret.value.model_name = Unknown
    /\ ret.value.production_date = Null

(* C4, as claimed: model_year is 0 only when ModelYear is absent from the  *)
(* filtered response; a present ModelYear that is no integer literal makes *)
(* decode raise a conversion failure and return no record, and under       *)
(* fetch_records that VIN is skipped.                                      *)
C4_ZeroOnlyWhenAbsent ==
    /\ (Done("decode_bmw_vin") /\ ret.kind = "return"
            /\ ret.value.model_year = 0)
        => ~Present(call.net.Results, "ModelYear")
    /\ (Done("decode_bmw_vin") /\ call.net.status = "ok"
            /\ Present(call.net.Results, "ModelYear")
            /\ ~IsIntLiteral(Given(call.net.Results, "ModelYear")))
        => ret.kind = "raise" /\ ret.error = "ValueError"
    /\ (Iterated /\ Table = "bmw_vehicles" /\ last_net.status = "ok"
            /\ Present(last_net.Results, "ModelYear")
            /\ ~IsIntLiteral(Given(last_net.Results, "ModelYear")))
        => Added = <<>>

(* C4, amended: model_year is 0 only when ModelYear is absent from the     *)
(* filtered response or its value is an integer literal that denotes zero  *)
(* (such as "00"); a present ModelYear that is no integer literal makes    *)
(* decode raise a conversion failure and return no record, and under       *)
(* fetch_records that VIN is skipped.                                      *)
C4_ZeroWhenAbsentOrZeroLiteral ==
    /\ (Done("decode_bmw_vin") /\ ret.kind = "return"
            /\ ret.value.model_year = 0)
        => \/ ~Present(call.net.Results, "ModelYear")
           \/ IsZeroLiteral(Given(call.net.Results, "ModelYear"))
    /\ (Done("decode_bmw_vin") /\ call.net.status = "ok"
            /\ Present(call.net.Results, "ModelYear")
            /\ ~IsIntLiteral(Given(call.net.Results, "ModelYear")))
        => ret.kind = "raise" /\ ret.error = "ValueError"
    /\ (Iterated /\ Table = "bmw_vehicles" /\ last_net.status = "ok"
            /\ Present(last_net.Results, "ModelYear")
            /\ ~IsIntLiteral(Given(last_net.Results, "ModelYear")))
        => Added = <<>>

C4_Witness ==
    /\ Iterated /\ call.op = "fetch_records" /\ Table = "bmw_vehicles"
    /\ last_net.status = "ok"
    /\ Present(last_net.Results, "ModelYear")
    /\ ~IsIntLiteral(Given(last_net.Results, "ModelYear"))
    /\ last_len > 0 /\ Len(records) = last_len

(* C5: _determine_bmw_series returns the first member, in the order        *)
(* 1,2,3,4,5,6,7,8,X,M,i,Unknown, whose code is a substring of the model   *)
(* name, and UNKNOWN when none is; so a name with "X" and none of "1".."8" *)
(* is SERIES_X and "X3" is SERIES_3.                                       *)
C5_FirstDeclaredSubstringWins ==
    Done("_determine_bmw_series") =>
        LET name == call.model_name
            order == << <<"1", "SERIES_1">>, <<"2", "SERIES_2">>,
                        <<"3", "SERIES_3">>, <<"4", "SERIES_4">>,
                        <<"5", "SERIES_5">>, <<"6", "SERIES_6">>,
                        <<"7", "SERIES_7">>, <<"8", "SERIES_8">>,
                        <<"X", "SERIES_X">>, <<"M", "SERIES_M">>,
                        <<"i", "SERIES_I">> >>
            has(k) == \E p \in 1..Len(name) : name[p] = order[k][1]
            hits == {k \in 1..Len(order) : has(k)}
        IN /\ ret.kind = "return"
           /\ IF hits = {} THEN ret.value = "UNKNOWN"
              ELSE \E k \in hits :
                    /\ \A j \in hits : k <= j
                    /\ ret.value = order[k][2]
           /\ (has(9) /\ \A k \in 1..8 : ~has(k)) => ret.value = "SERIES_X"
           /\ name = <<"X", "3">> => ret.value = "SERIES_3"

C5_Witness ==
    /\ Done("_determine_bmw_series")
    /\ call.model_name = <<"X", "3">>
    /\ ret.value = "SERIES_3"

(* C6, as claimed: for every 17-character VIN whose first three characters *)
(* are none of WBA, WBS, WBY, 4US, decode_bmw_vin fails with a             *)
(* validation/prefix error and performs no network call.                   *)
C6_DecodeRejectsForeignPrefix ==
    (Done("decode_bmw_vin") /\ Len(call.vin) = 17
        /\ SubSeq(call.vin, 1, 3) \notin
            {<<"W","B","A">>, <<"W","B","S">>, <<"W","B","Y">>, <<"4","U","S">>})
    => /\ ret.kind = "raise"
       /\ ret.error = "ValueError: Not a valid BMW VIN prefix"
       /\ net_calls = 0

(* C6, amended: for every such VIN _validate_bmw_vin fails with the prefix *)
(* error and performs no network call; decode_bmw_vin does not run that    *)
(* validation (its call is commented out), so decoding such a VIN issues   *)
(* the GET and fails only when the request, the body or the mapping fails. *)
C6_OnlyValidateRejectsForeignPrefix ==
    LET foreign(vin) ==
            /\ Len(vin) = 17
            /\ SubSeq(vin, 1, 3) \notin
                {<<"W","B","A">>, <<"W","B","S">>, <<"W","B","Y">>,
                 <<"4","U","S">>}
    IN /\ (Done("_validate_bmw_vin") /\ foreign(call.vin))
            => /\ ret.kind = "raise"
               /\ ret.error = "ValueError: Not a valid BMW VIN prefix"
               /\ net_calls = 0
       /\ (Done("_validate_bmw_vin") /\ Len(call.vin) = 17
                /\ ~foreign(call.vin))
            => ret.kind = "return"
       /\ (Done("decode_bmw_vin") /\ foreign(call.vin))
            => /\ net_calls = 1
               /\ ret.kind = "raise"
                    => ret.error \in Failures \cup {"ValueError"}
               /\ (call.net.status = "ok"
                    /\ ~Present(call.net.Results, "ModelYear"))
                    => ret.kind = "return"

C6_Witness ==
    /\ Done("_validate_bmw_vin")
    /\ call.vin = ConfigVin1
    /\ ret.kind = "raise"
    /\ net_calls = 0

(* C7: test_connection never raises; for every configuration (its 'vins'   *)
(* list empty or absent included) and every outcome of the decode it       *)
(* performs at most one decode against a sample VIN, returns true exactly  *)
(* when that decode completed without an exception, and false otherwise.   *)
C7_TestConnectionNeverRaises ==
    Done("test_connection") =>
        LET sample == IF call.config.has_vins THEN call.config.vins
                      ELSE <<SampleVin>>
        IN /\ ret.kind = "return"
           /\ ret.value \in BOOLEAN
           /\ net_calls <= 1
           /\ ret.value <=>
                /\ sample # <<>>
                /\ net_calls = 1
                /\ decode_bmw_vin(sample[1], call.net).kind = "return"

C7_Witness ==
    /\ Done("test_connection")
    /\ call.config.has_vins /\ call.config.vins = <<>>
    /\ ret.kind = "return" /\ ret.value = FALSE

C9_OneSharedDecodedDate ==
    /\ (Done("decode_bmw_vin") /\ ret.kind = "return")
        => ret.value.decoded_date = decoded_date_default
    /\ LET vehicles ==
               IF call.op = "fetch_records" /\ call.table = "bmw_vehicles"
               THEN records
               ELSE IF call.op = "update"
               THEN SelectSeq(collected, LAMBDA c : c.table = "bmw_vehicles")
               ELSE <<>>
           date(x) == IF call.op = "update" THEN x.record.decoded_date
                      ELSE x.decoded_date
       IN \A i, j \in 1..Len(vehicles) :
            /\ date(vehicles[i]) = date(vehicles[j])
            /\ date(vehicles[i]) = decoded_date_default

C9_Witness ==
    /\ call.op = "fetch_records" /\ call.table = "bmw_vehicles"
    /\ Len(records) >= 2
    /\ clock >= 2
    /\ clock # decoded_date_default

(* C10: a run of update emits nothing when the self-test fails; when it    *)
(* succeeds it emits zero or more upserts and then exactly one checkpoint, *)
(* the last operation, carrying the state token passed in; nothing follows *)
(* the checkpoint and a VIN that fails while fetching does not prevent it. *)
C10_UpsertsThenOneCheckpoint ==
    call.op = "update" =>
        /\ \A i \in 1..Len(ops) :
            IF i = Len(ops) /\ pc = "done"
            THEN ops[i] = [op |-> "checkpoint", state |-> call.state]
            ELSE ops[i].op = "upsert"
        /\ (pc # "call" /\ ~ret.connected) => pc = "done" /\ ops = <<>>
        /\ (pc = "done" /\ ret.connected) => ops # <<>>
        /\ pc # "done" => ENABLED Next

C10_Witness ==
    /\ Done("update") /\ ret.connected
    /\ Len(records) < Len(call.vins)
    /\ call.state = {"cursor"}
    /\ Len(ops) >= 2
    /\ ops[Len(ops)] = [op |-> "checkpoint", state |-> {"cursor"}]

====
